---- MODULE Spec2Model ----
(***************************************************************************)
(* The step-orchestration engine of the GWAS pipeline: GWASPipeline.run    *)
(* (workflow/gwas_pipeline/pipeline.py) driving ProgressLog                *)
(* (workflow/gwas_pipeline/progress.py).                                   *)
(*                                                                         *)
(* Time is counted in half-seconds ("ticks"): datetime.now() returns a     *)
(* tick, and every formatted timestamp (isoformat(timespec="seconds"),     *)
(* strftime("%Y%m%d_%H%M%S")) keeps only the whole second, tick \div 2.    *)
(* A string is a sequence of atoms: an atom is a step name, a comma, a     *)
(* blank, or the marker of a None token.                                   *)
(***************************************************************************)
EXTENDS Integers, Sequences, FiniteSets, TLC

VARIABLES
    clock,        \* the last value datetime.now() returned (ticks)
    fs,           \* the run-history directory: file name -> content
    logger,       \* handlers attached to the process-wide logger (ids)
    runs,         \* number of run() calls made so far
    pc,           \* the statement of run() being executed
    wpc,          \* position inside ProgressLog._write (0: not writing)
    selected,     \* run()'s selected_steps argument (its tokens are dead once
                  \* run_order is set and are dropped then)
    dry,          \* run()'s dry_run argument
    order,        \* run_order
    idx,          \* position of the for loop in run_order
    currentStep,  \* current_step
    progress,     \* TRUE once `progress` is bound to the ProgressLog
    logHandler,   \* id of log_handler, 0 while it is None
    exc,          \* the exception the except clause is handling
    result,       \* how the last run() ended
    invoked,      \* step handlers invoked by the current run, in order
    data,         \* ProgressLog.data
    active,       \* ProgressLog._active_starts, in insertion order
    faults,       \* I/O failures injected so far
    finishTried,  \* finish(status="failed") was called by the except clause
    swallowed,    \* number of errors the except clause discarded in this run
    loggerAtCall, \* the logger's handlers when the current run() was called
    fsAtCall,     \* the directory when the current run() was called
    handlerExc,   \* the error the step handler raised in the current run
    openHandlers, \* log handlers created and not yet closed
    history,      \* one summary per run() that opened a session
    readerOk,     \* every read of the external reader so far parsed
    config,       \* the "steps" section of self.config.data
    replaced,     \* destinations replaced by the ProgressLog call under way
    call,         \* the function call made by a direct caller, with its arguments
    ret           \* what that call returned or raised

vars == << clock, fs, logger, runs, pc, wpc, selected, dry, order, idx,
           currentStep, progress, logHandler, exc, result, invoked, data,
           active, faults, finishTried, swallowed, loggerAtCall, fsAtCall,
           handlerExc, openHandlers, history, readerOk, config, replaced,
           call, ret >>

-----------------------------------------------------------------------------
(* Bounds of the model.                                                    *)

\* run() calls in one behaviour
MaxRuns == 2
\* the clock goes from tick 0 to tick MaxClock
MaxClock == 2
\* I/O failures in one behaviour
MaxFaults == 2
\* ProgressLog calls a direct caller makes after the constructor
MaxLogCalls == 3
\* tokens in a selection passed to run() in the run model
MaxCallTokens == 2
\* atoms (and token boundaries) in a selection of the selection model
MaxAtoms == 5

-----------------------------------------------------------------------------
(* Values standing for Python's None / an absent dictionary key.           *)

NoTime == -1
NoMsg == "<no message>"
NoStep == "<no step>"
NONE == "<None>"

Truthy(s) == s # NoMsg /\ s # ""

-----------------------------------------------------------------------------
(* pipeline.py: the step registry.                                         *)

STEP_SEQUENCE ==
    << <<"step01_filter_variants", "filter_variants">>,
       <<"step02_filter_mapped_snps", "filter_mapped_snps">>,
       <<"step03_filter_individuals", "filter_individuals">>,
       <<"step04_transpose_matrix", "transpose_genotypes">>,
       <<"step05_calculate_ibs", "ibs_similarity">>,
       <<"step06_convert_to_dissimilarity", "ibs_dissimilarity">>,
       <<"step07_extract_labels", "extract_labels">>,
       <<"step08_create_plink_map", "create_plink_map">>,
       <<"step09_csv_to_tped", "transpose_to_tped">>,
       <<"step10_ld_decay_plot", "ld_decay_plot">>,
       <<"step11_plink_pruning", "plink_pruning">>,
       <<"step12_extract_pruned_subset", "extract_pruned_subset">>,
       <<"step13_pcoa", "pcoa">>,
       <<"step14_convert_to_structure", "convert_to_structure">>,
       <<"step15_fix_pruned_ped", "fix_pruned_ped">>,
       <<"step16_trait_split", "trait_split">>,
       <<"step17_trait_adjust", "trait_adjust">> >>

STEP_ORDER == [i \in DOMAIN STEP_SEQUENCE |-> STEP_SEQUENCE[i][1]]

Primaries == {STEP_SEQUENCE[i][1] : i \in DOMAIN STEP_SEQUENCE}

Legacies == {STEP_SEQUENCE[i][2] : i \in DOMAIN STEP_SEQUENCE}

\* variant: the table is not updated with primary -> primary
STEP_ALIASES_without_update ==
    [k \in Legacies |->
        LET last == CHOOSE i \in DOMAIN STEP_SEQUENCE :
                       /\ STEP_SEQUENCE[i][2] = k
                       /\ \A j \in DOMAIN STEP_SEQUENCE :
                             STEP_SEQUENCE[j][2] = k => j <= i
        IN  STEP_SEQUENCE[last][1]]

\* {alias: primary for ...} keeps the last pair of an alias; update() then
\* overrides with primary -> primary.
STEP_ALIASES ==
    [k \in Legacies \cup Primaries |->
        IF k \in Primaries THEN k
        ELSE LET last == CHOOSE i \in DOMAIN STEP_SEQUENCE :
                            /\ STEP_SEQUENCE[i][2] = k
                            /\ \A j \in DOMAIN STEP_SEQUENCE :
                                  STEP_SEQUENCE[j][2] = k => j <= i
             IN  STEP_SEQUENCE[last][1]]

\* steps.py: the keys of STEP_FUNCTIONS.
STEP_FUNCTIONS ==
    Primaries
    \cup {"step04_transpose_pruned", "step05_calculate_ibs_pruned",
          "step06_convert_to_dissimilarity_pruned", "step07_extract_labels_pruned"}
    \cup {"filter_variants", "filter_mapped_snps", "filter_individuals",
          "transpose_genotypes", "ibs_similarity", "ibs_dissimilarity",
          "extract_labels", "create_plink_map", "transpose_to_tped",
          "plink_pruning", "extract_pruned_subset", "convert_to_structure",
          "pcoa", "fix_pruned_ped", "trait_split", "trait_adjust",
          "ld_decay_plot"}

-----------------------------------------------------------------------------
(* pipeline.py, run(), lines 60-90: from the selection to the run order.   *)

RECURSIVE SplitFrom(_, _, _, _)
\* s.split(sep) read left to right: `cur` is the piece being collected.
SplitFrom(s, sep, i, cur) ==
    IF i > Len(s) THEN << cur >>
    ELSE IF s[i] = sep THEN << cur >> \o SplitFrom(s, sep, i + 1, << >>)
    ELSE SplitFrom(s, sep, i + 1, Append(cur, s[i]))

Split(s, sep) == SplitFrom(s, sep, 1, << >>)

RECURSIVE LStrip(_)
LStrip(s) == IF s # << >> /\ Head(s) = " " THEN LStrip(Tail(s)) ELSE s

RECURSIVE RStrip(_)
RStrip(s) ==
    IF s # << >> /\ s[Len(s)] = " " THEN RStrip(SubSeq(s, 1, Len(s) - 1)) ELSE s

Strip(s) == RStrip(LStrip(s))

RECURSIVE Str(_)
\* the string a sequence of atoms spells
Str(s) == IF s = << >> THEN "" ELSE Head(s) \o Str(Tail(s))

RECURSIVE PartsOfUnstripped(_)
\* variant: the pieces are not stripped
PartsOfUnstripped(pieces) ==
    IF pieces = << >> THEN << >>
    ELSE (IF Head(pieces) # << >> THEN << Str(Head(pieces)) >> ELSE << >>)
         \o PartsOfUnstripped(Tail(pieces))

RECURSIVE PartsOf(_)
\* lines 65-69: the non-empty stripped pieces of one token
PartsOf(pieces) ==
    IF pieces = << >> THEN << >>
    ELSE LET part == Strip(Head(pieces))
         IN  (IF part # << >> THEN << Str(part) >> ELSE << >>)
             \o PartsOf(Tail(pieces))

RECURSIVE SelectedList(_)
\* lines 61-69: selected_list
SelectedList(tokens) ==
    IF tokens = << >> THEN << >>
    ELSE (IF Head(tokens) = << NONE >> THEN << >>
          ELSE PartsOf(Split(Head(tokens), ",")))
         \o SelectedList(Tail(tokens))

\* variant: the alias table is not consulted
ResolvedUnaliased(step) == step

\* line 73: STEP_ALIASES.get(step, step)
Resolved(step) ==
    IF step \in DOMAIN STEP_ALIASES THEN STEP_ALIASES[step] ELSE step

RECURSIVE Normalised(_)
\* lines 70-77: normalised
Normalised(list) ==
    IF list = << >> THEN << >>
    ELSE (IF Resolved(Head(list)) \in STEP_FUNCTIONS
          THEN << Resolved(Head(list)) >> ELSE << >>)
         \o Normalised(Tail(list))

\* variant: fail-fast: only the first unresolved token is reported
UnknownFirstOnly(list) ==
    LET bad == SelectSeq(list, LAMBDA step : Resolved(step) \notin STEP_FUNCTIONS)
    IN  IF bad = << >> THEN << >> ELSE << bad[1] >>

RECURSIVE Unknown(_)
\* lines 70-77: unknown
Unknown(list) ==
    IF list = << >> THEN << >>
    ELSE (IF Resolved(Head(list)) \in STEP_FUNCTIONS
          THEN << >> ELSE << Head(list) >>)
         \o Unknown(Tail(list))

RECURSIVE DedupeFrom(_, _, _)
DedupeFrom(list, seen, acc) ==
    IF list = << >> THEN acc
    ELSE IF Head(list) \in seen THEN DedupeFrom(Tail(list), seen, acc)
    ELSE DedupeFrom(Tail(list), seen \cup {Head(list)}, Append(acc, Head(list)))

\* variant: duplicates are kept
RunOrderKeepingDuplicates(normalised) == normalised

\* lines 81-87: run_order
RunOrder(normalised) == DedupeFrom(normalised, {}, << >>)

RECURSIVE JoinComma(_)
\* ", ".join(unknown)
JoinComma(list) ==
    IF list = << >> THEN ""
    ELSE IF Len(list) = 1 THEN Head(list)
    ELSE Head(list) \o ", " \o JoinComma(Tail(list))

-----------------------------------------------------------------------------
(* pipeline.py, configured_steps(), lines 43-54.  config is the value of   *)
(* the "steps" key: mapping tells whether it is a dict, blocks gives, for  *)
(* each key of the dict, the kind of its value ("dict", "null", "scalar"). *)

RECURSIVE ConfiguredFrom(_, _)
ConfiguredFrom(cfg, i) ==
    IF i > Len(STEP_SEQUENCE) THEN << >>
    ELSE LET primary == STEP_SEQUENCE[i][1]
             legacy  == STEP_SEQUENCE[i][2]
             isDict(k) == k \in DOMAIN cfg.blocks /\ cfg.blocks[k] = "dict"
         IN  (IF isDict(primary) \/ (legacy # "" /\ isDict(legacy))
              THEN << primary >> ELSE << >>)
             \o ConfiguredFrom(cfg, i + 1)

configured_steps(cfg) == ConfiguredFrom(cfg, 1)

-----------------------------------------------------------------------------
(* progress.py: ProgressLog.  The operations are given as functions of     *)
(* (data, _active_starts); each returns the new pair and whether it raised *)
(* KeyError before writing.                                                *)

\* isoformat(timespec="seconds") / strftime("%Y%m%d_%H%M%S") of a tick
_fmt(t) == t \div 2

\* round((finished - start).total_seconds(), 2), in hundredths of a second
Duration(start, finished) == (finished - start) * 50

\* pipeline.py lines 101-102
session_name(t, dryRun) ==
    "run_" \o ToString(_fmt(t)) \o (IF dryRun THEN "_dryrun" ELSE "")

\* pipeline.py line 104: the name of progress_path
progress_path(session) == session \o ".json"

\* pipeline.py line 103
log_path(session) == session \o ".log"

latest_path == "latest.json"

\* variant: the text is written straight into the destination
tmp_path_in_place(name) == name

\* progress.py lines 45 and 61: the temporary sibling of a destination
tmp_path(name) == name \o ".tmp"

NoData ==
    [session |-> "", dry_run |-> FALSE, started_at |-> NoTime, status |-> "none",
     run_order |-> << >>, steps |-> << >>, finished_at |-> NoTime,
     message |-> NoMsg, last_completed_step |-> NoStep]

\* __init__, lines 23-36
NewData(session, dryRun, runOrder, startedAt) ==
    [session |-> session, dry_run |-> dryRun, started_at |-> _fmt(startedAt),
     status |-> "running", run_order |-> runOrder, steps |-> << >>,
     finished_at |-> NoTime, message |-> NoMsg, last_completed_step |-> NoStep]

StepEntry(step, status, noted, started) ==
    [step |-> step, status |-> status, noted_at |-> noted, started_at |-> started,
     finished_at |-> NoTime, duration_seconds |-> NoTime, message |-> NoMsg]

\* lines 65-73
plan_step(d, act, step, stamp) ==
    [data |-> [d EXCEPT !.steps = Append(@, StepEntry(step, "planned", _fmt(stamp), NoTime))],
     active |-> act, raised |-> FALSE]

\* _active_starts[step] = started: a key already present keeps its place
SetStart(act, step, started) ==
    IF \E i \in DOMAIN act : act[i][1] = step
    THEN [i \in DOMAIN act |-> IF act[i][1] = step THEN << step, started >> ELSE act[i]]
    ELSE Append(act, << step, started >>)

\* _active_starts.pop(step, None): the start time, NoTime when there is none
StartOf(act, step) ==
    IF \E i \in DOMAIN act : act[i][1] = step
    THEN (CHOOSE p \in {act[i] : i \in DOMAIN act} : p[1] = step)[2]
    ELSE NoTime

DropStart(act, step) == SelectSeq(act, LAMBDA p : p[1] # step)

\* lines 76-85
start_step(d, act, step, started) ==
    [data |-> [d EXCEPT !.steps = Append(@, StepEntry(step, "running", NoTime, _fmt(started)))],
     active |-> SetStart(act, step, started), raised |-> FALSE]

\* variant: a record of any status is accepted
_find_step_entry_any_status(steps, step) ==
    LET hits == {i \in DOMAIN steps : steps[i].step = step}
    IN  IF hits = {} THEN 0 ELSE CHOOSE i \in hits : \A j \in hits : j <= i

\* variant: the search runs from the oldest entry
_find_step_entry_forwards(steps, step) ==
    LET hits == {i \in DOMAIN steps :
                    /\ steps[i].step = step
                    /\ steps[i].status \in {"running", "completed", "failed"}}
    IN  IF hits = {} THEN 0 ELSE CHOOSE i \in hits : \A j \in hits : i <= j

\* lines 88-92: the index of the entry found, 0 for KeyError
_find_step_entry(steps, step) ==
    LET hits == {i \in DOMAIN steps :
                    /\ steps[i].step = step
                    /\ steps[i].status \in {"running", "completed", "failed"}}
    IN  IF hits = {} THEN 0 ELSE CHOOSE i \in hits : \A j \in hits : j <= i

\* variant: last_completed_step is never updated
complete_step_keeping_pointer(d, act, step, status, message, finished) ==
    LET i == _find_step_entry(d.steps, step)
        start_time == StartOf(act, step)
    IN  IF i = 0 THEN [data |-> d, active |-> act, raised |-> TRUE]
        ELSE [data |->
                [d EXCEPT
                   !.steps[i].status = status,
                   !.steps[i].finished_at = _fmt(finished),
                   !.steps[i].duration_seconds =
                       IF start_time # NoTime THEN Duration(start_time, finished) ELSE @,
                   !.steps[i].message = IF Truthy(message) THEN message ELSE @],
              active |-> DropStart(act, step), raised |-> FALSE]

\* lines 94-111
complete_step(d, act, step, status, message, finished) ==
    LET i == _find_step_entry(d.steps, step)
        start_time == StartOf(act, step)
    IN  IF i = 0 THEN [data |-> d, active |-> act, raised |-> TRUE]
        ELSE [data |->
                [d EXCEPT
                   !.steps[i].status = status,
                   !.steps[i].finished_at = _fmt(finished),
                   !.steps[i].duration_seconds =
                       IF start_time # NoTime THEN Duration(start_time, finished) ELSE @,
                   !.steps[i].message = IF Truthy(message) THEN message ELSE @,
                   !.last_completed_step = IF status = "completed" THEN step ELSE @],
              active |-> DropStart(act, step), raised |-> FALSE]

\* lines 114-115
fail_step(d, act, step, message, finished) ==
    complete_step(d, act, step, "failed", message, finished)

RECURSIVE FailPending(_, _, _, _)
\* lines 124-131: popitem() takes the entry inserted last
FailPending(d, act, message, finished) ==
    IF act = << >> THEN [data |-> d, active |-> act, raised |-> FALSE]
    ELSE LET pending == act[Len(act)]
             rest == SubSeq(act, 1, Len(act) - 1)
             i == _find_step_entry(d.steps, pending[1])
         IN  IF i = 0 THEN [data |-> d, active |-> rest, raised |-> TRUE]
             ELSE FailPending(
                    [d EXCEPT
                       !.steps[i].status = "failed",
                       !.steps[i].finished_at = _fmt(finished),
                       !.steps[i].duration_seconds = Duration(pending[2], finished),
                       !.steps[i].message =
                           IF Truthy(message) /\ @ = NoMsg THEN message ELSE @],
                    rest, message, finished)

\* variant: the message is not stored on the session
finish_dropping_message(d, act, status, message, finished) ==
    FailPending(
        [d EXCEPT !.status = status, !.finished_at = _fmt(finished)],
        act, message, finished)

\* lines 117-131
finish(d, act, status, message, finished) ==
    FailPending(
        [d EXCEPT !.status = status,
                  !.finished_at = _fmt(finished),
                  !.message = IF Truthy(message) THEN message ELSE @],
        act, message, finished)

\* _write, line 46: json.dumps(self.data)
SessionDoc(d) == [complete |-> TRUE, kind |-> "session", doc |-> d]

\* _write, lines 49-58 and 62
LatestDoc(d) ==
    [complete |-> TRUE, kind |-> "latest",
     doc |-> [session |-> d.session,
              progress_file |-> progress_path(d.session),
              status |-> d.status,
              started_at |-> d.started_at,
              finished_at |-> d.finished_at,
              last_completed_step |-> d.last_completed_step]]

\* a file opened for writing whose text is not all there yet
Partial(content) == [content EXCEPT !.complete = FALSE]

\* logging.FileHandler(log_path): the log file exists from then on
LogDoc == [complete |-> TRUE, kind |-> "log", doc |-> << >>]

EmptyDir == [n \in {} |-> LogDoc]

Put(dir, name, content) ==
    [n \in DOMAIN dir \cup {name} |-> IF n = name THEN content ELSE dir[n]]

\* Path.replace: the source takes the destination's name
Replace(dir, src, dst) ==
    [n \in (DOMAIN dir \ {src}) \cup {dst} |-> IF n = dst THEN dir[src] ELSE dir[n]]

-----------------------------------------------------------------------------
(* Inputs and values of the run model.                                     *)

NoArg == [given |-> FALSE, tokens |-> << >>]

\* no direct call of a function has been made
NoCall == [fn |-> "none", n |-> 0]

\* tokens a caller passes: a canonical name, its legacy alias, names that
\* are not registered, a blank token, None, a registered name that has no
\* alias, and comma-joined lists
CallTokens ==
    {<< "step01_filter_variants" >>, << "filter_variants" >>,
     << "bogus1" >>, << "bogus2" >>, << " " >>, << NONE >>,
     << "step04_transpose_pruned" >>,
     << "step02_filter_mapped_snps", ",", "filter_variants" >>,
     << "bogus2", ",", " ", "step02_filter_mapped_snps" >>}

CallSelections == UNION {[1..n -> CallTokens] : n \in 0..MaxCallTokens}

CallArgs == {NoArg} \cup {[given |-> TRUE, tokens |-> sel] : sel \in CallSelections}

\* the "steps" section of the loaded configuration
NoSteps == [mapping |-> TRUE, blocks |-> [k \in {} |-> "dict"]]

MainConfigs ==
    {NoSteps,
     [mapping |-> TRUE,
      blocks |-> [k \in {"filter_variants", "step02_filter_mapped_snps",
                         "step03_filter_individuals"} |->
                    IF k = "step03_filter_individuals" THEN "null" ELSE "dict"]],
     [mapping |-> TRUE, blocks |-> [k \in {"fix_pruned_ped"} |-> "dict"]],
     [mapping |-> FALSE, blocks |-> [k \in {} |-> "dict"]]}

\* config.py lines 38-45: self.config.get("steps", key), as the kind of the
\* value; "null" is None, also what get() gives for a key that is not there
StepBlock(cfg, key) ==
    IF cfg.mapping /\ key \in DOMAIN cfg.blocks THEN cfg.blocks[key] ELSE "null"

\* steps.py lines 45-53: the key under which the step's block was found,
\* "" when step_cfg is None; legacy is "" when the handler passes none
_load_step_config(cfg, primary, legacy) ==
    IF StepBlock(cfg, primary) = "dict" THEN primary
    ELSE IF legacy # "" /\ legacy # primary /\ StepBlock(cfg, legacy) = "dict"
         THEN legacy
         ELSE ""

\* steps.py, first statement of each handler: the (primary, legacy) keys the
\* handler registered under a run-order name passes to _load_step_config
HandlerKeys(step) ==
    CASE step = "step15_fix_pruned_ped" -> << step, "" >>
      [] step = "step04_transpose_pruned" -> << step, "transpose_genotypes_pruned" >>
      [] step = "step05_calculate_ibs_pruned" -> << step, "ibs_similarity_pruned" >>
      [] step = "step06_convert_to_dissimilarity_pruned" ->
             << step, "ibs_dissimilarity_pruned" >>
      [] step = "step07_extract_labels_pruned" -> << step, "extract_labels_pruned" >>
      [] OTHER -> STEP_SEQUENCE[CHOOSE i \in DOMAIN STEP_SEQUENCE :
                                   STEP_SEQUENCE[i][1] = step]

\* the handler of the step finds its block: it does not take the
\* "Skipping ... (not configured)" early return
Configured(cfg, step) ==
    _load_step_config(cfg, HandlerKeys(step)[1], HandlerKeys(step)[2]) # ""

\* str() of the errors a step handler raises
HandlerMsgs == {"", "boom"}

NoExc == [kind |-> "none", msg |-> ""]
HandlerError(m) == [kind |-> "Exception", msg |-> m]
\* steps.py line 98 and the like: a handler misses a setting of its block
MissingSetting ==
    [kind |-> "ConfigError", msg |-> "steps.step01_filter_variants.output_csv must be set"]
\* the errors a handler that does its work can raise
HandlerErrors == {HandlerError(m) : m \in HandlerMsgs} \cup {MissingSetting}
\* pipeline.py line 136: except Exception
Caught(e) == e.kind \notin {"none", "KeyboardInterrupt"}
Interrupt == [kind |-> "KeyboardInterrupt", msg |-> ""]
OSError == [kind |-> "OSError", msg |-> "[Errno 28] No space left on device"]
KeyError == [kind |-> "KeyError", msg |-> "'No step entry recorded'"]
\* pipeline.py line 79
UnknownSteps(unknown) ==
    [kind |-> "ConfigError", msg |-> "Unknown step(s): " \o JoinComma(unknown)]
\* pipeline.py line 46
StepsNotMapping ==
    [kind |-> "ConfigError", msg |-> "steps must be a mapping in the YAML configuration"]

NoResult == [how |-> "none", error |-> NoExc]
Returned == [how |-> "returned", error |-> NoExc]
Raised(e) == [how |-> "raised", error |-> e]

Absent == [complete |-> TRUE, kind |-> "absent", doc |-> << >>]
FileAt(dir, name) == IF name \in DOMAIN dir THEN dir[name] ELSE Absent

\* the files an external reader opens: session files and latest.json
DestNames ==
    {latest_path}
    \cup {progress_path(session_name(t, d)) : t \in 0..MaxClock, d \in BOOLEAN}

-----------------------------------------------------------------------------
(* The state after GWASPipeline(config) is constructed: get_logger() has   *)
(* attached the stream handler (id 0), no run has been made.               *)

InitBut ==
    /\ clock = 0
    /\ fs = EmptyDir
    /\ logger = {0}
    /\ runs = 0
    /\ pc = "idle"
    /\ wpc = 0
    /\ dry = FALSE
    /\ order = << >>
    /\ idx = 0
    /\ currentStep = NoStep
    /\ progress = FALSE
    /\ logHandler = 0
    /\ exc = NoExc
    /\ result = NoResult
    /\ invoked = << >>
    /\ data = NoData
    /\ active = << >>
    /\ faults = 0
    /\ finishTried = FALSE
    /\ swallowed = 0
    /\ loggerAtCall = {0}
    /\ fsAtCall = EmptyDir
    /\ handlerExc = NoExc
    /\ openHandlers = {}
    /\ history = << >>
    /\ readerOk = TRUE
    /\ replaced = << >>
    /\ ret = NoResult

\* GWASPipeline(config), lines 38-40, for each configuration of the model
Init ==
    /\ InitBut
    /\ selected = NoArg
    /\ config \in MainConfigs
    /\ call = NoCall

-----------------------------------------------------------------------------
(* pipeline.py, run().                                                     *)

\* lines 60-96: the run order, or the early exits before the try block
Enter(arg, d, cfg) ==
    /\ LET list == SelectedList(arg.tokens)
           unknown == Unknown(list)
           run_order == IF arg.given THEN RunOrder(Normalised(list))
                        ELSE configured_steps(cfg)
       IN  /\ selected' = arg
           /\ dry' = d
           /\ IF arg.given /\ unknown # << >>
              THEN /\ pc' = "exited"
                   /\ result' = Raised(UnknownSteps(unknown))
                   /\ order' = << >>
              ELSE IF ~arg.given /\ ~cfg.mapping
              THEN /\ pc' = "exited"
                   /\ result' = Raised(StepsNotMapping)
                   /\ order' = << >>
              ELSE IF arg.given /\ run_order = << >>
              THEN /\ pc' = "exited"
                   /\ result' = Returned
                   /\ order' = << >>
              ELSE /\ pc' = "ProgressLog"
                   /\ result' = NoResult
                   /\ order' = run_order
    /\ runs' = runs + 1
    /\ idx' = 0
    /\ currentStep' = NoStep
    /\ progress' = FALSE
    /\ logHandler' = 0
    /\ exc' = NoExc
    /\ invoked' = << >>
    /\ data' = NoData
    /\ active' = << >>
    /\ finishTried' = FALSE
    /\ swallowed' = 0
    /\ loggerAtCall' = logger
    /\ fsAtCall' = fs
    /\ handlerExc' = NoExc
    /\ replaced' = << >>
    /\ UNCHANGED << clock, fs, logger, wpc, faults, openHandlers, history, readerOk,
                    config, call, ret >>

\* the first run() of a pipeline object
Call ==
    /\ pc = "idle"
    /\ \E arg \in CallArgs, d \in BOOLEAN : Enter(arg, d, config)

\* run() is called again after the previous call has returned or raised
CallAgain ==
    /\ pc = "exited"
    /\ runs < MaxRuns
    /\ \E arg \in CallArgs, d \in BOOLEAN : Enter(arg, d, config)

\* where an exception raised inside the try block goes (lines 136-148): to
\* fail_step when a step is current, else to finish, and straight to the
\* finally clause when no ProgressLog is bound or `except Exception` does
\* not catch it
Handler(e) ==
    IF ~Caught(e) \/ ~progress THEN "finally"
    ELSE IF currentStep # NoStep THEN "fail_step"
    ELSE "finish_failed"

\* lines 98-111 and progress.py lines 23-37: ProgressLog(...), up to _write
ConstructProgressLog ==
    /\ pc = "ProgressLog" /\ wpc = 0
    /\ \E start_time \in clock..MaxClock :
          /\ clock' = start_time
          /\ data' = NewData(session_name(start_time, dry), dry, order, start_time)
    /\ active' = << >>
    /\ wpc' = 1
    /\ replaced' = << >>
    /\ selected' = [given |-> selected.given, tokens |-> << >>]
    /\ UNCHANGED << fs, logger, runs, pc, dry, order, idx, currentStep,
                    progress, logHandler, exc, result, invoked, faults,
                    finishTried, swallowed, loggerAtCall, handlerExc, fsAtCall, openHandlers, history,
                    readerOk,
                    config, call, ret >>

\* variant: the dry_run flag is not looked at
FirstStatementIgnoringDry ==
    IF order = << >> THEN "finish_completed" ELSE "start_step"

\* the first statement of the body after the log handler is attached
FirstStatement ==
    IF dry THEN (IF order = << >> THEN "finish_dry" ELSE "plan_step")
    ELSE (IF order = << >> THEN "finish_completed" ELSE "start_step")

\* lines 113-118: the FileHandler is created and attached
AttachLogHandler ==
    /\ pc = "FileHandler"
    /\ logHandler' = runs
    /\ logger' = logger \cup {runs}
    /\ openHandlers' = openHandlers \cup {runs}
    /\ fs' = IF log_path(data.session) \in DOMAIN fs THEN fs
             ELSE Put(fs, log_path(data.session), LogDoc)
    /\ pc' = FirstStatement
    /\ idx' = 1
    /\ UNCHANGED << clock, runs, wpc, selected, dry, order, currentStep,
                    progress, exc, result, invoked, data, active, faults,
                    finishTried, swallowed, loggerAtCall, handlerExc, fsAtCall, history,
                    readerOk,
                    config, call, ret, replaced >>

\* line 113: logging.FileHandler(log_path) cannot open the log file
AttachFails ==
    /\ pc = "FileHandler"
    /\ faults < MaxFaults
    /\ faults' = faults + 1
    /\ exc' = OSError
    /\ pc' = Handler(OSError)
    /\ UNCHANGED << clock, fs, logger, runs, wpc, selected, dry, order,
                    idx, currentStep, progress, logHandler, result, invoked,
                    data, active, finishTried, swallowed, loggerAtCall, handlerExc,
                    fsAtCall, openHandlers, history, readerOk,
                    config, call, ret, replaced >>

\* a ProgressLog call made by the body of the try block: the new
\* (data, _active_starts), then _write; KeyError goes to the except clause
BodyCall(r) ==
    /\ data' = r.data
    /\ active' = r.active
    /\ replaced' = << >>
    /\ IF r.raised
       THEN /\ exc' = KeyError
            /\ pc' = Handler(KeyError)
            /\ wpc' = 0
       ELSE /\ wpc' = 1
            /\ UNCHANGED << exc, pc >>

\* line 122
PlanStep ==
    /\ pc = "plan_step" /\ wpc = 0
    /\ \E stamp \in clock..MaxClock :
          /\ clock' = stamp
          /\ BodyCall(plan_step(data, active, order[idx], stamp))
    /\ UNCHANGED << fs, logger, runs, selected, dry, order, idx,
                    currentStep, progress, logHandler, result, invoked, faults,
                    finishTried, swallowed, loggerAtCall, handlerExc, fsAtCall, openHandlers, history,
                    readerOk,
                    config, call, ret >>

\* line 124
FinishDryRun ==
    /\ pc = "finish_dry" /\ wpc = 0
    /\ \E finished \in clock..MaxClock :
          /\ clock' = finished
          /\ BodyCall(finish(data, active, "dry_run", NoMsg, finished))
    /\ UNCHANGED << fs, logger, runs, selected, dry, order, idx,
                    currentStep, progress, logHandler, result, invoked, faults,
                    finishTried, swallowed, loggerAtCall, handlerExc, fsAtCall, openHandlers, history,
                    readerOk,
                    config, call, ret >>

\* lines 129-130
StartStep ==
    /\ pc = "start_step" /\ wpc = 0
    /\ currentStep' = order[idx]
    /\ \E started \in clock..MaxClock :
          /\ clock' = started
          /\ BodyCall(start_step(data, active, order[idx], started))
    /\ UNCHANGED << fs, logger, runs, selected, dry, order, idx,
                    progress, logHandler, result, invoked, faults, finishTried,
                    swallowed, loggerAtCall, handlerExc, fsAtCall, openHandlers, history, readerOk,
                    config, call, ret >>

\* variant: the next step is started without recording the step that
\* returned
HandlerReturnsUnrecorded ==
    /\ pc = "handler"
    /\ invoked' = Append(invoked, order[idx])
    /\ pc' = IF idx < Len(order) THEN "start_step" ELSE "finish_completed"
    /\ idx' = IF idx < Len(order) THEN idx + 1 ELSE idx
    /\ UNCHANGED << clock, fs, logger, runs, wpc, selected, dry, order,
                    currentStep, progress, logHandler, exc, result, data,
                    active, faults, finishTried, swallowed, loggerAtCall, handlerExc,
                    fsAtCall, openHandlers, history, readerOk,
                    config, call, ret, replaced >>

\* lines 131-132: the handler returns
HandlerReturns ==
    /\ pc = "handler"
    /\ invoked' = Append(invoked, order[idx])
    /\ pc' = "complete_step"
    /\ UNCHANGED << clock, fs, logger, runs, wpc, selected, dry, order,
                    idx, currentStep, progress, logHandler, exc, result, data,
                    active, faults, finishTried, swallowed, loggerAtCall, handlerExc,
                    fsAtCall, openHandlers, history, readerOk,
                    config, call, ret, replaced >>

\* lines 131-132: the handler raises an Exception; only a handler that
\* found its block gets past its early return (steps.py lines 85-88)
HandlerRaises ==
    /\ pc = "handler"
    /\ invoked' = Append(invoked, order[idx])
    /\ Configured(config, order[idx])
    /\ \E e \in HandlerErrors :
          /\ exc' = e
          /\ handlerExc' = e
          /\ pc' = Handler(e)
    /\ UNCHANGED << clock, fs, logger, runs, wpc, selected, dry, order,
                    idx, currentStep, progress, logHandler, result, data,
                    active, faults, finishTried, swallowed, loggerAtCall,
                    fsAtCall, openHandlers, history, readerOk,
                    config, call, ret, replaced >>

\* lines 131-132: the handler is interrupted (KeyboardInterrupt is not an
\* Exception: the except clause is skipped)
HandlerInterrupted ==
    /\ pc = "handler"
    /\ invoked' = Append(invoked, order[idx])
    /\ exc' = Interrupt
    /\ handlerExc' = Interrupt
    /\ pc' = Handler(Interrupt)
    /\ UNCHANGED << clock, fs, logger, runs, wpc, selected, dry, order,
                    idx, currentStep, progress, logHandler, result, data,
                    active, faults, finishTried, swallowed, loggerAtCall,
                    fsAtCall, openHandlers, history, readerOk,
                    config, call, ret, replaced >>

\* line 133
CompleteStep ==
    /\ pc = "complete_step" /\ wpc = 0
    /\ \E finished \in clock..MaxClock :
          /\ clock' = finished
          /\ BodyCall(complete_step(data, active, order[idx], "completed", NoMsg, finished))
    /\ UNCHANGED << fs, logger, runs, selected, dry, order, idx,
                    currentStep, progress, logHandler, result, invoked, faults,
                    finishTried, swallowed, loggerAtCall, handlerExc, fsAtCall, openHandlers, history,
                    readerOk,
                    config, call, ret >>

\* line 134
FinishCompleted ==
    /\ pc = "finish_completed" /\ wpc = 0
    /\ \E finished \in clock..MaxClock :
          /\ clock' = finished
          /\ BodyCall(finish(data, active, "completed", NoMsg, finished))
    /\ UNCHANGED << fs, logger, runs, selected, dry, order, idx,
                    currentStep, progress, logHandler, result, invoked, faults,
                    finishTried, swallowed, loggerAtCall, handlerExc, fsAtCall, openHandlers, history,
                    readerOk,
                    config, call, ret >>

\* a ProgressLog call made by the except clause: an error it raises is
\* discarded (lines 141-143 and 146-147) and control goes on to `next`
ExceptCall(r, next) ==
    /\ data' = r.data
    /\ active' = r.active
    /\ replaced' = << >>
    /\ IF r.raised
       THEN /\ swallowed' = swallowed + 1
            /\ pc' = next
            /\ wpc' = 0
       ELSE /\ wpc' = 1
            /\ UNCHANGED << swallowed, pc >>

\* lines 138-143
FailStep ==
    /\ pc = "fail_step" /\ wpc = 0
    /\ \E finished \in clock..MaxClock :
          /\ clock' = finished
          /\ ExceptCall(fail_step(data, active, currentStep, exc.msg, finished),
                        "finish_failed")
    /\ UNCHANGED << fs, logger, runs, selected, dry, order, idx,
                    currentStep, progress, logHandler, exc, result, invoked,
                    faults, finishTried, loggerAtCall, handlerExc, fsAtCall, openHandlers, history,
                    readerOk,
                    config, call, ret >>

\* lines 144-147
FinishFailed ==
    /\ pc = "finish_failed" /\ wpc = 0
    /\ finishTried' = TRUE
    /\ \E finished \in clock..MaxClock :
          /\ clock' = finished
          /\ ExceptCall(finish(data, active, "failed", exc.msg, finished), "finally")
    /\ UNCHANGED << fs, logger, runs, selected, dry, order, idx,
                    currentStep, progress, logHandler, exc, result, invoked,
                    faults, loggerAtCall, handlerExc, fsAtCall, openHandlers, history, readerOk,
                    config, call, ret >>

\* what a run leaves behind for the next ones to be compared with
Summary ==
    [session |-> data.session, dry_run |-> dry, run_order |-> order,
     status |-> data.status, invoked |-> invoked, how |-> result'.how,
     file |-> FileAt(fs, progress_path(data.session))]

\* variant: the log handler is removed at the end of the try body only
FinallyOnSuccessOnly ==
    /\ pc = "finally"
    /\ logger' = IF logHandler # 0 /\ exc = NoExc THEN logger \ {logHandler} ELSE logger
    /\ openHandlers' = IF exc = NoExc THEN openHandlers \ {logHandler} ELSE openHandlers
    /\ result' = IF exc = NoExc THEN Returned ELSE Raised(exc)
    /\ history' = Append(history, Summary)
    /\ pc' = "exited"
    /\ UNCHANGED << clock, fs, runs, wpc, selected, dry, order, idx,
                    currentStep, progress, logHandler, exc, invoked, data,
                    active, faults, finishTried, swallowed, loggerAtCall,
                    handlerExc, fsAtCall, readerOk,
                    config, call, ret, replaced >>

\* lines 148-152: the finally clause, then run() returns or raises
Finally ==
    /\ pc = "finally"
    /\ logger' = IF logHandler # 0 THEN logger \ {logHandler} ELSE logger
    /\ openHandlers' = openHandlers \ {logHandler}
    /\ result' = IF exc = NoExc THEN Returned ELSE Raised(exc)
    /\ history' = Append(history, Summary)
    /\ pc' = "exited"
    /\ UNCHANGED << clock, fs, runs, wpc, selected, dry, order, idx,
                    currentStep, progress, logHandler, exc, invoked, data,
                    active, faults, finishTried, swallowed, loggerAtCall, handlerExc,
                    fsAtCall, readerOk,
                    config, call, ret, replaced >>

-----------------------------------------------------------------------------
(* progress.py, _write(), lines 43-63, one file-system operation at a      *)
(* time: wpc 1-3 write the session file, wpc 4-6 write latest.json.        *)

Dest == IF wpc <= 3 THEN progress_path(data.session) ELSE latest_path

Payload == IF wpc <= 3 THEN SessionDoc(data) ELSE LatestDoc(data)

\* the statement that follows a ProgressLog call that returned
AfterCall ==
    /\ pc' = CASE pc = "ProgressLog" -> "FileHandler"
               [] pc = "plan_step" ->
                    IF idx < Len(order) THEN "plan_step" ELSE "finish_dry"
               [] pc = "start_step" -> "handler"
               [] pc = "complete_step" ->
                    IF idx < Len(order) THEN "start_step" ELSE "finish_completed"
               [] pc = "fail_step" -> "finish_failed"
               [] pc = "caller" -> "caller"
               [] OTHER -> "finally"
    /\ idx' = IF pc \in {"plan_step", "complete_step"} /\ idx < Len(order)
              THEN idx + 1 ELSE idx
    /\ progress' = (progress \/ pc = "ProgressLog")

\* write_text, lines 46 and 62: the temporary file is opened (truncated) ...
TmpOpen ==
    /\ wpc \in {1, 4}
    /\ fs' = Put(fs, tmp_path(Dest), Partial(Payload))
    /\ wpc' = wpc + 1
    /\ UNCHANGED << clock, logger, runs, pc, selected, dry, order, idx,
                    currentStep, progress, logHandler, exc, result, invoked,
                    data, active, faults, finishTried, swallowed, loggerAtCall, handlerExc,
                    fsAtCall, openHandlers, history, readerOk,
                    config, call, ret, replaced >>

\* ... and the whole text is in it when write_text returns
TmpFlush ==
    /\ wpc \in {2, 5}
    /\ fs' = Put(fs, tmp_path(Dest), Payload)
    /\ wpc' = wpc + 1
    /\ UNCHANGED << clock, logger, runs, pc, selected, dry, order, idx,
                    currentStep, progress, logHandler, exc, result, invoked,
                    data, active, faults, finishTried, swallowed, loggerAtCall, handlerExc,
                    fsAtCall, openHandlers, history, readerOk,
                    config, call, ret, replaced >>

\* variant: the session file is not replaced
ReplaceSessionSkipped ==
    /\ wpc = 3
    /\ wpc' = 4
    /\ UNCHANGED << clock, fs, logger, runs, pc, selected, dry, order, idx,
                    currentStep, progress, logHandler, exc, result, invoked,
                    data, active, faults, finishTried, swallowed, loggerAtCall,
                    handlerExc, fsAtCall, openHandlers, history, readerOk,
                    config, call, ret, replaced >>

\* line 47: tmp_path.replace(self.path)
ReplaceSession ==
    /\ wpc = 3
    /\ fs' = Replace(fs, tmp_path(Dest), Dest)
    /\ replaced' = Append(replaced, Dest)
    /\ wpc' = 4
    /\ UNCHANGED << clock, logger, runs, pc, selected, dry, order, idx,
                    currentStep, progress, logHandler, exc, result, invoked,
                    data, active, faults, finishTried, swallowed, loggerAtCall, handlerExc,
                    fsAtCall, openHandlers, history, readerOk,
                    config, call, ret >>

\* line 63: tmp_latest.replace(self.latest_path); the call returns
ReplaceLatest ==
    /\ wpc = 6
    /\ fs' = Replace(fs, tmp_path(Dest), Dest)
    /\ replaced' = Append(replaced, Dest)
    /\ wpc' = 0
    /\ AfterCall
    /\ UNCHANGED << clock, logger, runs, selected, dry, order,
                    currentStep, logHandler, exc, result, invoked, data, active,
                    faults, finishTried, swallowed, loggerAtCall, handlerExc, fsAtCall, openHandlers,
                    history, readerOk,
                    config, call, ret >>

\* variant: fail_step and finish are called without their own try/except:
\* an error they raise leaves the except clause
RaiseOSErrorUnguarded ==
    IF pc \in {"fail_step", "finish_failed"}
    THEN /\ exc' = OSError
         /\ pc' = "finally"
         /\ UNCHANGED swallowed
    ELSE /\ exc' = OSError
         /\ pc' = Handler(OSError)
         /\ UNCHANGED swallowed

\* lines 136-148: an OSError raised by a ProgressLog call.  In the body of
\* the try block it goes to the except clause; raised by fail_step or
\* finish inside the except clause it is caught and discarded
RaiseOSError ==
    IF pc \in {"fail_step", "finish_failed"}
    THEN /\ swallowed' = swallowed + 1
         /\ pc' = IF pc = "fail_step" THEN "finish_failed" ELSE "finally"
         /\ UNCHANGED exc
    ELSE /\ exc' = OSError
         /\ pc' = Handler(OSError)
         /\ UNCHANGED swallowed

\* the pending file-system operation of _write fails
WriteFails ==
    /\ wpc \in 1..6
    /\ faults < MaxFaults
    /\ faults' = faults + 1
    /\ wpc' = 0
    /\ RaiseOSError
    /\ UNCHANGED << clock, fs, logger, runs, selected, dry, order, idx,
                    currentStep, progress, logHandler, result, invoked, data,
                    active, finishTried, loggerAtCall, handlerExc, fsAtCall,
                    openHandlers, history, readerOk,
                    config, call, ret, replaced >>

-----------------------------------------------------------------------------
(* An external reader opens a session file or latest.json and parses it.   *)

ReaderReads ==
    /\ \E name \in DestNames \cap DOMAIN fs :
          readerOk' = (readerOk /\ fs[name].complete)
    /\ UNCHANGED << clock, fs, logger, runs, pc, wpc, selected, dry,
                    order, idx, currentStep, progress, logHandler, exc, result,
                    invoked, data, active, faults, finishTried, swallowed,
                    loggerAtCall, handlerExc, fsAtCall, openHandlers, history,
                    config, call, ret, replaced >>

-----------------------------------------------------------------------------

Next ==
    \/ Call
    \/ ConstructProgressLog
    \/ AttachLogHandler
    \/ AttachFails
    \/ PlanStep
    \/ FinishDryRun
    \/ StartStep
    \/ HandlerReturns
    \/ HandlerRaises
    \/ HandlerInterrupted
    \/ CompleteStep
    \/ FinishCompleted
    \/ FailStep
    \/ FinishFailed
    \/ Finally
    \/ TmpOpen
    \/ TmpFlush
    \/ ReplaceSession
    \/ ReplaceLatest
    \/ WriteFails
    \/ ReaderReads

Spec == Init /\ [][Next]_vars

\* sequential runs in which no handler and no file operation fails
NextRuns ==
    \/ Call
    \/ CallAgain
    \/ ConstructProgressLog
    \/ AttachLogHandler
    \/ PlanStep
    \/ FinishDryRun
    \/ StartStep
    \/ HandlerReturns
    \/ CompleteStep
    \/ FinishCompleted
    \/ Finally
    \/ TmpOpen
    \/ TmpFlush
    \/ ReplaceSession
    \/ ReplaceLatest
    \/ ReaderReads

SpecRuns == Init /\ [][NextRuns]_vars

\* selections that are given and name no step: an empty list, and tokens
\* that are None, empty, blank or made of commas and blanks
BlankSelections ==
    {<< >>, << << >> >>, << << NONE >> >>, << << " " >> >>, << << "," >> >>,
     << << " ", ",", " " >>, << >> >>, << << ",", "," >>, << NONE >> >>}

\* run() is called with a selection that names no step, as a first call or
\* after an earlier run has exited
CallBlank ==
    /\ pc \in {"idle", "exited"}
    /\ runs < MaxRuns
    /\ \E sel \in BlankSelections, d \in BOOLEAN :
          Enter([given |-> TRUE, tokens |-> sel], d, config)

\* a run without failures, and calls with a selection that names no step
NextBlank ==
    \/ Call
    \/ CallBlank
    \/ ConstructProgressLog
    \/ AttachLogHandler
    \/ PlanStep
    \/ FinishDryRun
    \/ StartStep
    \/ HandlerReturns
    \/ CompleteStep
    \/ FinishCompleted
    \/ Finally
    \/ TmpOpen
    \/ TmpFlush
    \/ ReplaceSession
    \/ ReplaceLatest

SpecBlank == Init /\ [][NextBlank]_vars

-----------------------------------------------------------------------------
(* The selection model: run() is entered with each selection of at most    *)
(* MaxAtoms atoms and token boundaries ("|").                              *)

SelectAtoms ==
    {"step01_filter_variants", "filter_variants", "step02_filter_mapped_snps",
     "bogus1", ",", " ", "|"}

SelectArgs ==
    {[given |-> TRUE, tokens |-> << >>]}
    \cup {[given |-> TRUE, tokens |-> Split(flat, "|")] :
             flat \in UNION {[1..n -> SelectAtoms] : n \in 0..MaxAtoms}}

InitSelect ==
    /\ InitBut
    /\ selected \in SelectArgs
    /\ config \in MainConfigs
    /\ call = NoCall

\* run(selected) up to line 92
Resolve ==
    /\ pc = "idle"
    /\ Enter(selected, FALSE, config)

NextSelect == Resolve

SpecSelect == InitSelect /\ [][NextSelect]_vars

-----------------------------------------------------------------------------
(* progress.py: a ProgressLog driven by a caller other than run(), which   *)
(* makes any calls in any order, each with its _write.                     *)

\* the step identifiers the caller uses
LogSteps == {"step01_filter_variants", "step02_filter_mapped_snps"}

InitLog ==
    /\ InitBut
    /\ selected = NoArg
    /\ config = NoSteps
    /\ call = NoCall

\* a ProgressLog method is entered with the new (data, _active_starts): it
\* raises KeyError before _write or goes on to _write
LogCall(fn, step, status, message, r) ==
    /\ pc = "caller" /\ wpc = 0
    /\ data.status = "running"
    /\ call.n < MaxLogCalls
    /\ call' = [fn |-> fn, n |-> call.n + 1, step |-> step, status |-> status,
                message |-> message]
    /\ data' = r.data
    /\ active' = r.active
    /\ replaced' = << >>
    /\ wpc' = IF r.raised THEN 0 ELSE 1
    /\ ret' = IF r.raised THEN Raised(KeyError) ELSE NoResult
    /\ UNCHANGED << fs, logger, runs, pc, selected, dry, order, idx,
                    currentStep, progress, logHandler, exc, result, invoked,
                    faults, finishTried, swallowed, loggerAtCall, fsAtCall,
                    handlerExc, openHandlers, history, readerOk, config >>

\* progress.py lines 14-37: ProgressLog(path, session=..., dry_run=False,
\* run_order=[...])
NewLog ==
    /\ pc = "idle"
    /\ \E started_at \in clock..MaxClock :
          /\ clock' = started_at
          /\ data' = NewData("session", FALSE,
                             << "step01_filter_variants", "step02_filter_mapped_snps" >>,
                             started_at)
    /\ active' = << >>
    /\ replaced' = << >>
    /\ wpc' = 1
    /\ pc' = "caller"
    /\ UNCHANGED << fs, logger, runs, selected, dry, order, idx,
                    currentStep, progress, logHandler, exc, result, invoked,
                    faults, finishTried, swallowed, loggerAtCall, fsAtCall,
                    handlerExc, openHandlers, history, readerOk, config, call,
                    ret >>

\* progress.py lines 65-74
LogPlan ==
    \E step \in LogSteps, stamp \in clock..MaxClock :
        /\ clock' = stamp
        /\ LogCall("plan_step", step, NoMsg, NoMsg, plan_step(data, active, step, stamp))

\* progress.py lines 76-86
LogStart ==
    \E step \in LogSteps, started \in clock..MaxClock :
        /\ clock' = started
        /\ LogCall("start_step", step, NoMsg, NoMsg,
                   start_step(data, active, step, started))

\* progress.py lines 94-112
LogComplete ==
    \E step \in LogSteps, status \in {"completed", "failed"},
       message \in {NoMsg, "boom"}, finished \in clock..MaxClock :
        /\ clock' = finished
        /\ LogCall("complete_step", step, status, message,
                   complete_step(data, active, step, status, message, finished))

\* progress.py lines 114-115
LogFail ==
    \E step \in LogSteps, message \in {NoMsg, "boom"}, finished \in clock..MaxClock :
        /\ clock' = finished
        /\ LogCall("fail_step", step, "failed", message,
                   fail_step(data, active, step, message, finished))

\* progress.py lines 117-132
LogFinish ==
    \E status \in {"completed", "failed"}, message \in {NoMsg, "boom"},
       finished \in clock..MaxClock :
        /\ clock' = finished
        /\ LogCall("finish", NoStep, status, message,
                   finish(data, active, status, message, finished))

NextLog ==
    \/ NewLog
    \/ LogPlan
    \/ LogStart
    \/ LogComplete
    \/ LogFail
    \/ LogFinish
    \/ TmpOpen
    \/ TmpFlush
    \/ ReplaceSession
    \/ ReplaceLatest

SpecLog == InitLog /\ [][NextLog]_vars

-----------------------------------------------------------------------------
(* config.py, PipelineConfig, and steps.py, _resolve_input_path: the       *)
(* resolution of a step input.  A configuration value is a node: None, a   *)
(* string (a path text, absolute or relative) or a dict of nodes.  A key   *)
(* handed to get() is a string or, when a caller hands a list of key paths *)
(* where one key path is expected, a tuple.                                *)

None == [t |-> "none", s |-> "", abs |-> FALSE, d |-> << >>]
Text(s, abs) == [t |-> "str", s |-> s, abs |-> abs, d |-> << >>]
Dict(d) == [t |-> "dict", s |-> "", abs |-> FALSE, d |-> d]

StrKey(s) == [str |-> s]
TupleKey(path) == [tuple |-> path]

\* a key path as the call sites of steps.py write it: ("paths", "a")
KeyPath(path) == [i \in DOMAIN path |-> StrKey(path[i])]

\* config.py line 41: isinstance(node, dict) and key in node (the keys of a
\* loaded YAML mapping are strings: a tuple is never one of them)
HasKey(node, key) ==
    /\ node.t = "dict"
    /\ "str" \in DOMAIN key
    /\ key.str \in DOMAIN node.d

RECURSIVE GetFrom(_, _, _, _)
\* config.py lines 39-45
GetFrom(node, keys, i, default) ==
    IF i > Len(keys) THEN node
    ELSE IF HasKey(node, keys[i])
         THEN GetFrom(node.d[keys[i].str], keys, i + 1, default)
         ELSE default

\* config.py lines 38-45: PipelineConfig.get(*keys, default=None)
get(cfgData, keys, default) == GetFrom(cfgData, keys, 1, default)

\* the project root every relative path is resolved against
ProjectRoot == "/project/"

NoPath == [set |-> FALSE, path |-> ""]

\* config.py lines 58-66: PipelineConfig.resolve_path
resolve_path(value) ==
    IF value.t = "none" \/ (value.t = "str" /\ value.s = "") THEN NoPath
    ELSE [set |-> TRUE,
          path |-> IF value.abs THEN value.s ELSE ProjectRoot \o value.s]

\* config.py lines 68-70: PipelineConfig.path(*keys)
path(cfgData, keys) == resolve_path(get(cfgData, keys, None))

ReturnedValue(v) == [how |-> "returned", value |-> v]

\* steps.py line 35
MissingInput(key) ==
    [kind |-> "ConfigError",
     msg |-> "Missing input path for key '" \o key \o "' and no fallback provided"]

\* dict.get(key) of a step block
StepCfgGet(step_cfg, key) ==
    IF key \in DOMAIN step_cfg.d THEN step_cfg.d[key] ELSE None

\* steps.py lines 24-35 (line 29 cannot be reached: a truthy raw resolves)
_resolve_input_path(cfgData, step_cfg, key, fallback_keys) ==
    LET raw == StepCfgGet(step_cfg, key)
        fallback == path(cfgData, fallback_keys)
    IN  IF raw.t = "str" /\ raw.s # ""
        THEN ReturnedValue(resolve_path(raw).path)
        ELSE IF fallback_keys # << >> /\ fallback.set
             THEN ReturnedValue(fallback.path)
             ELSE Raised(MissingInput(key))

\* values a path setting can have: missing, null, empty, relative, absolute
Settings(name) ==
    {<< >>, << None >>, << Text("", FALSE) >>,
     << Text(name \o ".csv", FALSE) >>, << Text("/data/" \o name \o ".csv", TRUE) >>}

\* a dict with key k when the setting is present
Block(k, setting) == [x \in (IF setting = << >> THEN {} ELSE {k}) |-> setting[1]]

\* two dicts with different keys, merged
Merge(f, g) == [x \in DOMAIN f \cup DOMAIN g |-> IF x \in DOMAIN f THEN f[x] ELSE g[x]]

\* the fallback chains a caller asks for: none, one key path (set or not),
\* and ordered lists of two key paths
Chains ==
    {<< >>,
     << <<"paths", "a">> >>, << <<"paths", "b">> >>, << <<"paths", "zz">> >>,
     << <<"paths", "a">>, <<"paths", "b">> >>,
     << <<"paths", "b">>, <<"paths", "a">> >>,
     << <<"paths", "zz">>, <<"paths", "a">> >>}

\* what a caller passes as fallback_keys for a chain: nothing, the one key
\* path as steps.py writes it (steps.py line 94), or the list of key paths
FallbackKeys(chain) ==
    IF chain = << >> THEN << >>
    ELSE IF Len(chain) = 1 THEN KeyPath(chain[1])
    ELSE [i \in DOMAIN chain |-> TupleKey(chain[i])]

ResolveCalls ==
    {[fn |-> "_resolve_input_path",
      config |-> Dict([x \in {"paths"} |-> Dict(Merge(Block("a", a), Block("b", b)))]),
      step_cfg |-> Dict(Block("input_csv", primary)),
      key |-> "input_csv",
      chain |-> chain] :
        a \in Settings("a"), b \in Settings("b"),
        primary \in Settings("p"), chain \in Chains}

InitResolve ==
    /\ InitBut
    /\ selected = NoArg
    /\ config = NoSteps
    /\ call \in ResolveCalls

\* a step handler resolves one of its inputs
ResolveInput ==
    /\ call.fn = "_resolve_input_path"
    /\ ret = NoResult
    /\ ret' = _resolve_input_path(call.config, call.step_cfg, call.key,
                                  FallbackKeys(call.chain))
    /\ UNCHANGED << clock, fs, logger, runs, pc, wpc, selected, dry, order, idx,
                    currentStep, progress, logHandler, exc, result, invoked,
                    data, active, faults, finishTried, swallowed, loggerAtCall,
                    fsAtCall, handlerExc, openHandlers, history, readerOk,
                    config, replaced, call >>

NextResolve == ResolveInput

SpecResolve == InitResolve /\ [][NextResolve]_vars

\* the block of step01, absent or holding output_csv in each of its forms
PredecessorBlocks ==
    {<< >>} \cup {<< Dict(Block("output_csv", out)) >> : out \in Settings("filtered")}

\* steps.py lines 162-173: filter_mapped_snps resolves input_csv with the
\* fallback ("steps", "step01_filter_variants", "output_csv"), for each
\* configuration that holds the block of step01 under its canonical name,
\* under its legacy name, or not at all
PredecessorCalls ==
    {[fn |-> "_resolve_input_path",
      config |-> Dict([x \in {"steps"} |->
                    Dict(Merge(Merge(Block("step01_filter_variants", canonical),
                                     Block("filter_variants", legacy)),
                               Block("step02_filter_mapped_snps",
                                     << Dict(Block("input_csv", primary)) >>)))]),
      step_cfg |-> Dict(Block("input_csv", primary)),
      key |-> "input_csv",
      chain |-> << <<"steps", "step01_filter_variants", "output_csv">> >>] :
        canonical \in PredecessorBlocks, legacy \in PredecessorBlocks,
        primary \in {<< >>, << None >>, << Text("in.csv", FALSE) >>}}

InitPredecessor ==
    /\ InitBut
    /\ selected = NoArg
    /\ config = NoSteps
    /\ call \in PredecessorCalls

NextPredecessor == ResolveInput

SpecPredecessor == InitPredecessor /\ [][NextPredecessor]_vars

-----------------------------------------------------------------------------
(* config.py: get and require called on a loaded configuration.            *)

RECURSIVE Dotted(_)
\* config.py line 50: ".".join(keys)
Dotted(keys) ==
    IF keys = << >> THEN ""
    ELSE IF Len(keys) = 1 THEN keys[1].str
    ELSE keys[1].str \o "." \o Dotted(Tail(keys))

\* config.py line 51
MissingRequired(keys) ==
    [kind |-> "ConfigError", msg |-> "Missing required config key: " \o Dotted(keys)]

\* config.py lines 47-52: PipelineConfig.require(*keys)
require(cfgData, keys) ==
    LET value == get(cfgData, keys, None)
    IN  IF value.t = "none" THEN Raised(MissingRequired(keys))
        ELSE ReturnedValue(value)

\* documents with 'paths' missing, null, a scalar, or a mapping in which
\* 'a' is missing, null, empty or a text
ConfigDocs ==
    {Dict(Block("paths", top)) :
        top \in {<< >>, << None >>, << Text("scalar", FALSE) >>}
                \cup {<< Dict(Block("a", a)) >> : a \in Settings("a")}}

ConfigKeyPaths ==
    {<< >>, <<"paths">>, <<"paths", "a">>, <<"paths", "a", "x">>, <<"zz", "a">>}

ConfigCalls ==
    {[fn |-> "get", config |-> doc, keys |-> KeyPath(keys), default |-> default] :
        doc \in ConfigDocs, keys \in ConfigKeyPaths,
        default \in {None, Text("fallback.csv", FALSE)}}
    \cup {[fn |-> "require", config |-> doc, keys |-> KeyPath(keys), default |-> None] :
             doc \in ConfigDocs, keys \in ConfigKeyPaths}

InitConfig ==
    /\ InitBut
    /\ selected = NoArg
    /\ config = NoSteps
    /\ call \in ConfigCalls

\* config.get(*keys, default=default)
ConfigGet ==
    /\ call.fn = "get"
    /\ ret = NoResult
    /\ ret' = ReturnedValue(get(call.config, call.keys, call.default))
    /\ UNCHANGED << clock, fs, logger, runs, pc, wpc, selected, dry, order, idx,
                    currentStep, progress, logHandler, exc, result, invoked,
                    data, active, faults, finishTried, swallowed, loggerAtCall,
                    fsAtCall, handlerExc, openHandlers, history, readerOk,
                    config, replaced, call >>

\* config.require(*keys)
ConfigRequire ==
    /\ call.fn = "require"
    /\ ret = NoResult
    /\ ret' = require(call.config, call.keys)
    /\ UNCHANGED << clock, fs, logger, runs, pc, wpc, selected, dry, order, idx,
                    currentStep, progress, logHandler, exc, result, invoked,
                    data, active, faults, finishTried, swallowed, loggerAtCall,
                    fsAtCall, handlerExc, openHandlers, history, readerOk,
                    config, replaced, call >>

NextConfig ==
    \/ ConfigGet
    \/ ConfigRequire

SpecConfig == InitConfig /\ [][NextConfig]_vars

-----------------------------------------------------------------------------
(* The claims.                                                             *)

\* the text of an optional message: nothing is stored for an empty text
MsgText(m) == IF m = NoMsg THEN "" ELSE m

\* the session file of the current run as it is on disk
SessionFile == FileAt(fs, progress_path(data.session))

\* C1: when the handler at position k raises an error, run() exits with
\* exactly k StepRecords, the first k-1 'completed', the k-th 'failed' with
\* a non-empty message, and no handler after position k was invoked; for
\* every error, one with an empty text included.
C1_FailedAtK ==
    (pc = "exited" /\ Caught(handlerExc)) =>
        LET k == Len(invoked)
        IN  /\ invoked = SubSeq(order, 1, k)
            /\ Len(data.steps) = k
            /\ \A i \in 1..(k - 1) :
                  /\ data.steps[i].step = order[i]
                  /\ data.steps[i].status = "completed"
            /\ data.steps[k].step = order[k]
            /\ data.steps[k].status = "failed"
            /\ Truthy(data.steps[k].message)

\* C2: whenever an external reader opens a session file or latest.json it
\* finds a complete document of the right kind, never a partly written one.
C2_DestinationsComplete ==
    /\ readerOk
    /\ \A name \in DestNames \cap DOMAIN fs :
          /\ fs[name].complete
          /\ fs[name].kind = IF name = latest_path THEN "latest" ELSE "session"

\* a new version of the session file is half written beside the previous
\* complete version
C2_Witness ==
    /\ pc = "complete_step"
    /\ wpc = 2
    /\ progress_path(data.session) \in DOMAIN fs
    /\ tmp_path(progress_path(data.session)) \in DOMAIN fs
    /\ ~fs[tmp_path(progress_path(data.session))].complete
    /\ fs[progress_path(data.session)] # SessionDoc(data)

\* C3: a dry run invokes no handler and never holds a record that is not
\* 'planned'; when it returns, the session has one 'planned' record per
\* step of the run order, in run order, and status 'dry_run', on disk too.
C3_DryRun ==
    dry =>
        /\ invoked = << >>
        /\ \A i \in DOMAIN data.steps : data.steps[i].status = "planned"
        /\ (pc = "exited" /\ progress /\ result.how = "returned") =>
              /\ data.status = "dry_run"
              /\ Len(data.steps) = Len(order)
              /\ \A i \in DOMAIN order : data.steps[i].step = order[i]
              /\ SessionFile = SessionDoc(data)

C3_Witness ==
    /\ dry
    /\ pc = "exited"
    /\ result.how = "returned"
    /\ Len(order) = 2
    /\ Len(data.steps) = 2
    /\ data.status = "dry_run"

\* the parts of a selection that resolve to no registered handler
UnregisteredParts(arg) ==
    SelectSeq(SelectedList(arg.tokens), LAMBDA part : Resolved(part) \notin STEP_FUNCTIONS)

\* C4: the run order of a selection holds each alias-resolved identifier of
\* the selection exactly once, in the order of first occurrence.
C4_RunOrder ==
    (pc = "ProgressLog" /\ selected.given) =>
        LET list == SelectedList(selected.tokens)
            ids == [i \in DOMAIN list |-> Resolved(list[i])]
            First(x) == CHOOSE i \in DOMAIN ids :
                           ids[i] = x /\ \A j \in 1..(i - 1) : ids[j] # x
        IN  /\ {order[j] : j \in DOMAIN order} = {ids[i] : i \in DOMAIN ids}
            /\ \A j1, j2 \in DOMAIN order : j1 # j2 => order[j1] # order[j2]
            /\ \A j1, j2 \in DOMAIN order :
                  j1 < j2 => First(order[j1]) < First(order[j2])

\* a legacy alias and then its canonical name, after another step
C4_Witness ==
    /\ pc = "ProgressLog"
    /\ selected.tokens =
          << << "step02_filter_mapped_snps", ",", "filter_variants", ",",
                "step01_filter_variants" >> >>
    /\ order = << "step02_filter_mapped_snps", "step01_filter_variants" >>

\* C5: a selection with a token that resolves to no registered handler
\* makes run() raise one configuration error naming every such token in
\* selection order, with no session file, no latest.json update, no
\* StepRecord, no log handler and no handler invocation.
C5_UnknownSteps ==
    (selected.given /\ UnregisteredParts(selected) # << >>) =>
        /\ pc = "exited"
        /\ result = Raised([kind |-> "ConfigError",
                            msg |-> "Unknown step(s): "
                                    \o JoinComma(UnregisteredParts(selected))])
        /\ fs = fsAtCall
        /\ logger = loggerAtCall
        /\ ~progress
        /\ data = NoData
        /\ invoked = << >>

\* two unregistered names around a registered one
C5_Witness ==
    /\ pc = "exited"
    /\ selected.tokens = << << "bogus1" >>, << "bogus2", ",", " ", "step02_filter_mapped_snps" >> >>
    /\ result.error.msg = "Unknown step(s): bogus1, bogus2"

\* C6: a live run in which every handler returns (and every progress write
\* succeeds) returns normally with session status 'completed', one
\* 'completed' record per step of the run order, in run order, and
\* last_completed_step the last step of the run order.
C6_AllCompleted ==
    (pc = "exited" /\ progress /\ ~dry /\ handlerExc = NoExc /\ faults = 0) =>
        /\ result = Returned
        /\ invoked = order
        /\ data.status = "completed"
        /\ Len(data.steps) = Len(order)
        /\ \A i \in DOMAIN order :
              /\ data.steps[i].step = order[i]
              /\ data.steps[i].status = "completed"
        /\ (order # << >> => data.last_completed_step = order[Len(order)])
        /\ SessionFile = SessionDoc(data)

C6_Witness ==
    /\ pc = "exited"
    /\ ~dry
    /\ faults = 0
    /\ Len(order) = 2
    /\ invoked = order
    /\ data.status = "completed"

\* C7: when a handler raises an error the session ends 'failed', the text
\* of the error is the message of the failing step's record and of the
\* session, and the records of the steps before it stay 'completed'.
C7_FailureRecorded ==
    (pc = "exited" /\ Caught(handlerExc)) =>
        LET k == Len(invoked)
        IN  /\ data.status = "failed"
            /\ MsgText(data.message) = handlerExc.msg
            /\ k \in DOMAIN data.steps
            /\ data.steps[k].status = "failed"
            /\ MsgText(data.steps[k].message) = handlerExc.msg
            /\ \A i \in 1..(k - 1) : data.steps[i].status = "completed"
            /\ (swallowed = 0 => SessionFile = SessionDoc(data))

C7_Witness ==
    /\ pc = "exited"
    /\ handlerExc = HandlerError("boom")
    /\ Len(invoked) = 2
    /\ data.message = "boom"

\* C8: the error run() raises after a handler failure is the handler's own
\* error, whatever fails while the failure is recorded, and finish is
\* attempted even when fail_step failed.
C8_OriginalError ==
    (pc = "exited" /\ handlerExc # NoExc) =>
        /\ result = Raised(handlerExc)
        /\ (Caught(handlerExc) => finishTried)

\* both fail_step and finish failed after the handler raised
C8_Witness ==
    /\ pc = "exited"
    /\ Caught(handlerExc)
    /\ swallowed = 2
    /\ finishTried

\* C9: two sequential complete live runs of the same run order give two
\* distinct sessions, the first one's file intact after the second, both
\* 'completed', every handler invoked in each, however close in time.
C9_DistinctSessions ==
    (/\ pc = "exited"
     /\ Len(history) = 2
     /\ \A i \in 1..2 : ~history[i].dry_run /\ history[i].how = "returned"
     /\ history[1].run_order = history[2].run_order) =>
        /\ history[1].session # history[2].session
        /\ FileAt(fs, progress_path(history[1].session)) = history[1].file
        /\ \A i \in 1..2 :
              /\ history[i].status = "completed"
              /\ history[i].invoked = history[i].run_order

\* C10: when run() has returned or raised, the logger has the handlers it
\* had when run() was called and the run's log handler is closed.
C10_LogSinkReleased ==
    pc = "exited" => (logger = loggerAtCall /\ openHandlers = {})

\* the run was aborted by a failed progress write after the sink was attached
C10_Witness ==
    /\ pc = "exited"
    /\ logHandler # 0
    /\ result.how = "raised"
    /\ result.error.kind = "OSError"

\* C11: whenever the session file of the current session and latest.json
\* both exist, latest.json carries the session identifier, status,
\* finished_at and last_completed_step of that session file.
C11_LatestReflectsSession ==
    (progress_path(data.session) \in DOMAIN fs /\ latest_path \in DOMAIN fs) =>
        LET s == fs[progress_path(data.session)].doc
            l == fs[latest_path].doc
        IN  /\ l.session = s.session
            /\ l.status = s.status
            /\ l.finished_at = s.finished_at
            /\ l.last_completed_step = s.last_completed_step

\* the values of the primary key and of each key path of the chain, in order
ChainValues(c) ==
    << StepCfgGet(c.step_cfg, c.key) >>
    \o [i \in DOMAIN c.chain |-> get(c.config, KeyPath(c.chain[i]), None)]

NoBlock(step) ==
    \A key \in {HandlerKeys(step)[1], HandlerKeys(step)[2]} \ {""} :
        ~(config.mapping /\ key \in DOMAIN config.blocks)

\* C13: in a live run of an explicit selection, a step without a
\* configuration block is never recorded 'completed', and once its handler
\* has been invoked run() ends with a configuration error, the step's
\* record and the session 'failed'.
C13_UnconfiguredStepFails ==
    (selected.given /\ ~dry) =>
        /\ \A i \in DOMAIN data.steps :
              NoBlock(data.steps[i].step) => data.steps[i].status # "completed"
        /\ (pc = "exited" /\ \E i \in DOMAIN invoked : NoBlock(invoked[i])) =>
              /\ result.how = "raised"
              /\ result.error.kind = "ConfigError"
              /\ data.status = "failed"

\* C14: when run() ends with a configuration error, no step handler was
\* invoked in that run.
C14_ConfigErrorBeforeHandlers ==
    (pc = "exited" /\ result.how = "raised" /\ result.error.kind = "ConfigError") =>
        invoked = << >>

\* C15: without a selection the run order is the canonical ordering
\* restricted to the steps that have a key in the steps section, under the
\* canonical or the legacy name, whatever the value of the key.
C15_DefaultOrder ==
    (pc # "idle" /\ ~selected.given /\ config.mapping) =>
        LET kept == SelectSeq(STEP_SEQUENCE,
                              LAMBDA pair : \/ pair[1] \in DOMAIN config.blocks
                                            \/ pair[2] \in DOMAIN config.blocks)
        IN  order = [i \in DOMAIN kept |-> kept[i][1]]

\* the records with status 'running' in a list of StepRecords
Running(steps) == {i \in DOMAIN steps : steps[i].status = "running"}

\* C16: handlers are invoked in run order; when a handler is invoked the
\* session file holds the step's record as 'running' and the records of all
\* earlier steps as 'completed'; at most one record is 'running' at any
\* time, in memory and in the session file.
C16_OneAtATime ==
    LET written == IF SessionFile.kind = "session" THEN SessionFile.doc.steps
                   ELSE << >>
    IN  /\ invoked = SubSeq(order, 1, Len(invoked))
        /\ Cardinality(Running(data.steps)) <= 1
        /\ Cardinality(Running(written)) <= 1
        /\ pc = "handler" =>
              /\ Len(invoked) = idx - 1
              /\ Len(written) = idx
              /\ written[idx].step = order[idx]
              /\ written[idx].status = "running"
              /\ \A i \in 1..(idx - 1) :
                    /\ written[i].step = order[i]
                    /\ written[i].status = "completed"

\* the second handler of the run order is about to be invoked
C16_Witness ==
    /\ pc = "handler"
    /\ idx = 2
    /\ invoked = << order[1] >>
    /\ Running(data.steps) = {2}

\* C17: after finish has returned on a ProgressLog, whatever start_step,
\* complete_step and fail_step calls came before it, no StepRecord of the
\* session has status 'running'.
C17_FinishLeavesNoRunning ==
    (call.fn = "finish" /\ pc = "caller" /\ wpc = 0) =>
        \A i \in DOMAIN data.steps : data.steps[i].status # "running"

\* the statuses a finished session has
TerminalStatuses == {"completed", "failed", "dry_run"}

\* C18: once the status of the session, in memory or in the session file,
\* is 'completed', 'failed' or 'dry_run', no step of the run changes it.
C18_TerminalStatusAbsorbing ==
    [][/\ data.status \in TerminalStatuses => data'.status = data.status
       /\ (SessionFile.kind = "session" /\ SessionFile.doc.status \in TerminalStatuses) =>
             SessionFile'.doc.status = SessionFile.doc.status]_vars

\* C19: when a mutating ProgressLog call returns, it has replaced the
\* session file once and then latest.json once and nothing else, the
\* session file holds the in-memory session and latest.json its summary.
C19_OneWritePerCall ==
    [][(wpc = 6 /\ wpc' = 0 /\ faults' = faults) =>
          /\ replaced' = << progress_path(data.session), latest_path >>
          /\ FileAt(fs', progress_path(data.session)) = SessionDoc(data')
          /\ FileAt(fs', latest_path) = LatestDoc(data')]_vars

\* fail_step has returned in the except clause, after the five calls of the
\* try body that came before it
C19_Witness ==
    /\ pc = "finish_failed"
    /\ wpc = 0
    /\ swallowed = 0
    /\ replaced = << progress_path(data.session), latest_path >>
    /\ Len(data.steps) = 2
    /\ data.steps[2].status = "failed"

\* the records complete_step may choose from
Candidates(steps, id) ==
    {i \in DOMAIN steps : steps[i].step = id /\ steps[i].status \in {"running", "completed", "failed"}}

\* C20: complete_step(id, status, message) changes only the most recent
\* running/completed/failed record for id (its status, finish time, duration
\* and message) and forgets the start time of id; every other record, the
\* run order, the session status and the start times of the other steps
\* stay as they were, and last_completed_step changes, to id, only when
\* status is 'completed'.
C20_CompleteStepFrame ==
    [][(call'.n # call.n /\ call'.fn \in {"complete_step", "fail_step"}) =>
         LET id == call'.step
             hits == Candidates(data.steps, id)
         IN  IF hits = {}
             THEN ret'.how = "raised" /\ data' = data /\ active' = active
             ELSE LET i == CHOOSE k \in hits : \A j \in hits : j <= k
                      old == data.steps[i]
                      new == data'.steps[i]
                  IN  /\ DOMAIN data'.steps = DOMAIN data.steps
                      /\ \A j \in DOMAIN data.steps : j # i => data'.steps[j] = data.steps[j]
                      /\ new.step = id
                      /\ new.noted_at = old.noted_at
                      /\ new.started_at = old.started_at
                      /\ new.status = call'.status
                      /\ new.finished_at = _fmt(clock')
                      /\ new.message \in {old.message, call'.message}
                      /\ (\A k \in DOMAIN active : active[k][1] # id) =>
                             new.duration_seconds = old.duration_seconds
                      /\ active' = SelectSeq(active, LAMBDA p : p[1] # id)
                      /\ data'.run_order = data.run_order
                      /\ data'.status = data.status
                      /\ data'.session = data.session
                      /\ data'.started_at = data.started_at
                      /\ data'.finished_at = data.finished_at
                      /\ data'.message = data.message
                      /\ data'.last_completed_step =
                             IF call'.status = "completed" THEN id
                             ELSE data.last_completed_step]_vars

\* complete_step has returned for a step started twice: the later record
\* is completed, the earlier one is still 'running'
C20_Witness ==
    /\ call.fn = "complete_step"
    /\ wpc = 0
    /\ replaced = << progress_path(data.session), latest_path >>
    /\ Len(data.steps) = 2
    /\ data.steps[1].step = data.steps[2].step
    /\ data.steps[1].status = "running"
    /\ data.steps[2].status = "completed"
    /\ data.last_completed_step = data.steps[2].step

\* C21: when no progress write failed, a run() that opened a session and
\* has exited, whether its handlers returned, raised or were interrupted,
\* leaves a session file with a terminal status and no record 'running'.
C21_ExitsTerminal ==
    (pc = "exited" /\ progress /\ faults = 0) =>
        /\ SessionFile.kind = "session"
        /\ SessionFile.doc.status \in TerminalStatuses
        /\ Running(SessionFile.doc.steps) = {}

\* the alias table as built from STEP_SEQUENCE is well formed
AliasTableWellFormed ==
    LET n == Len(STEP_SEQUENCE)
        names == DOMAIN STEP_ALIASES \cup STEP_FUNCTIONS \cup {"bogus1", ""}
    IN  /\ \A i, j \in 1..n : i # j => STEP_SEQUENCE[i][1] # STEP_SEQUENCE[j][1]
        /\ \A i, j \in 1..n : i # j => STEP_SEQUENCE[i][2] # STEP_SEQUENCE[j][2]
        /\ \A i, j \in 1..n : i # j => STEP_SEQUENCE[i][2] # STEP_SEQUENCE[j][1]
        /\ DOMAIN STEP_ALIASES = Primaries \cup Legacies
        /\ {STEP_ALIASES[k] : k \in DOMAIN STEP_ALIASES} = Primaries
        /\ \A i \in 1..n : /\ STEP_ALIASES[STEP_SEQUENCE[i][1]] = STEP_SEQUENCE[i][1]
                           /\ STEP_ALIASES[STEP_SEQUENCE[i][2]] = STEP_SEQUENCE[i][1]
        /\ \A x \in names : Resolved(Resolved(x)) = Resolved(x)

\* C22: the alias table is a total mapping onto the canonical identifiers:
\* the canonical identifiers are pairwise distinct, no legacy alias stands in
\* two pairs, every canonical identifier maps to itself, no legacy alias is
\* another step's canonical identifier, and resolving twice is resolving
\* once, also for every identifier of a run order that run() resolved.
C22_AliasTable ==
    /\ AliasTableWellFormed
    /\ \A i \in DOMAIN order : Resolved(order[i]) = order[i]

\* run() has resolved a legacy alias given twice to its canonical identifier
C22_Witness ==
    /\ pc = "ProgressLog"
    /\ selected.tokens = << << "filter_variants" >>, << "filter_variants" >> >>
    /\ order = << "step01_filter_variants" >>

RECURSIVE PresentFrom(_, _, _)
\* every segment of the key path from position i on is a key of a mapping
PresentFrom(node, keys, i) ==
    \/ i > Len(keys)
    \/ /\ node.t = "dict"
       /\ keys[i].str \in DOMAIN node.d
       /\ PresentFrom(node.d[keys[i].str], keys, i + 1)

RECURSIVE StoredFrom(_, _, _)
\* the value stored at a key path that is present
StoredFrom(node, keys, i) ==
    IF i > Len(keys) THEN node ELSE StoredFrom(node.d[keys[i].str], keys, i + 1)

\* C23: get returns the value stored at a key path of which every segment
\* is present in a mapping and the default otherwise; require returns that
\* same value when the key path is present and otherwise raises a
\* configuration error with the dotted key path in its message.
C23_GetRequire ==
    ("keys" \in DOMAIN call /\ ret.how # "none") =>
        LET present == PresentFrom(call.config, call.keys, 1)
            stored == StoredFrom(call.config, call.keys, 1)
        IN  IF call.fn = "get"
            THEN ret.value = (IF present THEN stored ELSE call.default)
            ELSE IF present
                 THEN ret.how = "returned" /\ ret.value = stored
                 ELSE /\ ret.how = "raised"
                      /\ ret.error.kind = "ConfigError"
                      /\ ret.error.msg = "Missing required config key: " \o Dotted(call.keys)

\* last_completed_step of a session document is absent, or names the step of
\* the last 'completed' record, which is that step's authoritative record
PointerSound(doc) ==
    doc.last_completed_step # NoStep =>
        LET hits == Candidates(doc.steps, doc.last_completed_step)
            done == {i \in DOMAIN doc.steps : doc.steps[i].status = "completed"}
        IN  /\ hits # {}
            /\ doc.steps[CHOOSE i \in hits : \A j \in hits : j <= i].status = "completed"
            /\ \A i \in done :
                  (\A j \in done : j <= i) => doc.steps[i].step = doc.last_completed_step

\* C24: in every state of a run, with or without a failed progress write,
\* last_completed_step, in memory and in the session file, names a step
\* whose authoritative record is 'completed' and which is the last
\* 'completed' step in record order.
C24_LastCompletedSound ==
    /\ PointerSound(data)
    /\ SessionFile.kind = "session" => PointerSound(SessionFile.doc)

\* the handler of the step was invoked and returned without an error
ReturnedNormally(step) ==
    \E k \in DOMAIN invoked :
        invoked[k] = step /\ (k < Len(invoked) \/ handlerExc = NoExc)

\* C25: in a live run no step whose handler returned normally is recorded
\* as 'failed', in memory or in the session file, whatever fails afterwards
\* while its completion is recorded or the session is finished.
C25_FailedOnlyIfRaised ==
    LET written == IF SessionFile.kind = "session" THEN SessionFile.doc.steps ELSE << >>
    IN  ~dry =>
          /\ \A i \in DOMAIN data.steps :
                data.steps[i].status = "failed" => ~ReturnedNormally(data.steps[i].step)
          /\ \A i \in DOMAIN written :
                written[i].status = "failed" => ~ReturnedNormally(written[i].step)

\* C26: a step of the default order is found configured by its own handler:
\* no step that configured_steps() put in the run order is recorded
\* 'completed' in the session file while its handler's block lookup finds
\* no block for it.
C26_DefaultOrderConfigured ==
    LET written == IF SessionFile.kind = "session" THEN SessionFile.doc.steps ELSE << >>
    IN  (~selected.given /\ ~dry) =>
           \A i \in DOMAIN written :
               written[i].status = "completed" => Configured(config, written[i].step)

\* C27: every identifier of a run order that run() executes is registered
\* in the handler table and is a canonical identifier or a registered name
\* without alias, never a legacy alias, and run_order and the StepRecords of
\* the session hold these same identifiers, position by position.
C27_RunOrderCanonical ==
    LET doc == IF SessionFile.kind = "session" THEN SessionFile.doc ELSE data
    IN  /\ \A i \in DOMAIN order :
              /\ order[i] \in STEP_FUNCTIONS
              /\ order[i] \notin Legacies
              /\ order[i] \in Primaries \/ order[i] \notin DOMAIN STEP_ALIASES
        /\ data.status # "none" =>
              /\ data.run_order = order
              /\ doc.run_order = order
              /\ \A i \in DOMAIN data.steps : data.steps[i].step = order[i]
              /\ \A i \in DOMAIN doc.steps : doc.steps[i].step = order[i]

\* the handler of a step selected by its legacy alias is dispatched after
\* another step
C27_Witness ==
    /\ pc = "handler"
    /\ selected.given
    /\ idx = 2
    /\ order = << "step02_filter_mapped_snps", "step01_filter_variants" >>
    /\ SessionFile.kind = "session"
    /\ SessionFile.doc.steps[2].step = "step01_filter_variants"

\* the handler of a registered name that has no alias is dispatched
C27_WitnessUnaliased ==
    /\ pc = "handler"
    /\ order = << "step04_transpose_pruned" >>
    /\ data.steps[1].step = "step04_transpose_pruned"

\* C28: complete_step or fail_step for an identifier with no record that is
\* running, completed or failed raises KeyError and changes nothing: the
\* records, the session status, last_completed_step and the remembered
\* start times stay as they were and no file is written.
C28_NoEntryNoChange ==
    [][(/\ call'.n # call.n
        /\ call'.fn \in {"complete_step", "fail_step"}
        /\ Candidates(data.steps, call'.step) = {}) =>
          /\ ret'.how = "raised"
          /\ ret'.error = KeyError
          /\ data' = data
          /\ active' = active
          /\ fs' = fs
          /\ wpc' = 0
          /\ replaced' = << >>]_vars

\* complete_step was called for a step that is only 'planned'
C28_Witness ==
    /\ call.fn = "complete_step"
    /\ ret.how = "raised"
    /\ wpc = 0
    /\ Len(data.steps) = 1
    /\ data.steps[1].step = call.step
    /\ data.steps[1].status = "planned"
    /\ SessionFile = SessionDoc(data)

\* the selection names no step: every token is None or holds only commas
\* and blanks
NamesNoStep(tokens) ==
    \A i \in DOMAIN tokens :
        tokens[i] = << NONE >> \/ \A k \in DOMAIN tokens[i] : tokens[i][k] \in {",", " "}

\* C29: run() entered with a selection that is given and names no step
\* returns at once: no session is opened, no file is created or changed,
\* no log handler is attached, no handler is invoked, and the configured
\* default order is not used.
C29_BlankSelectionReturns ==
    [][(runs' = runs + 1 /\ selected'.given /\ NamesNoStep(selected'.tokens)) =>
          /\ pc' = "exited"
          /\ result' = Returned
          /\ order' = << >>
          /\ invoked' = << >>
          /\ fs' = fs
          /\ logger' = logger
          /\ openHandlers' = openHandlers
          /\ logHandler' = 0
          /\ ~progress'
          /\ data' = NoData]_vars

\* after a run that wrote latest.json, run() was called with commas and
\* blanks only, under a configuration that has configured steps
C29_Witness ==
    /\ pc = "exited"
    /\ runs = 2
    /\ selected = [given |-> TRUE, tokens |-> << << " ", ",", " " >>, << >> >>]
    /\ result = Returned
    /\ configured_steps(config) # << >>
    /\ latest_path \in DOMAIN fs
    /\ fs = fsAtCall
    /\ order = << >>

\* the step blocks of the configuration of a call
StepsOf(c) == c.config.d["steps"].d

\* the block of step01 as configured_steps() finds it: under the canonical
\* name, else under the legacy name
PredecessorBlock(c) ==
    IF "step01_filter_variants" \in DOMAIN StepsOf(c)
    THEN StepsOf(c)["step01_filter_variants"]
    ELSE IF "filter_variants" \in DOMAIN StepsOf(c)
         THEN StepsOf(c)["filter_variants"]
         ELSE None

\* the output the predecessor declares: a non-empty text, or nothing
DeclaredOutput(c) ==
    LET block == PredecessorBlock(c)
    IN  IF block.t = "dict" /\ "output_csv" \in DOMAIN block.d
           /\ block.d["output_csv"].t = "str" /\ block.d["output_csv"].s # ""
        THEN << block.d["output_csv"] >> ELSE << >>

\* C30: when a step's own input is not set, the fallback to the output its
\* predecessor declares resolves to that output's path, whether the
\* predecessor's block stands under its canonical or its legacy name.
C30_FallbackHonoursAlias ==
    (/\ "chain" \in DOMAIN call
     /\ ret.how # "none"
     /\ "input_csv" \notin DOMAIN call.step_cfg.d \/ call.step_cfg.d["input_csv"].t = "none"
     /\ DeclaredOutput(call) # << >>) =>
        LET out == DeclaredOutput(call)[1]
        IN  /\ ret.how = "returned"
            /\ ret.value = (IF out.abs THEN out.s ELSE ProjectRoot \o out.s)

====
